---- MODULE Spec2Model ----
(***************************************************************************)
(* A model of the DuckDB "mask" extension (src/src/mask_extension.cpp):    *)
(* the registration of its three scalar functions at load, and the per-row *)
(* evaluation of mask_string, mask_email and scramble_string.              *)
(*                                                                         *)
(* Strings are sequences of bytes (one-character TLA+ strings).  A column  *)
(* value is a record [is_null, v], as the host's Value is.  The 64-bit     *)
(* integers of the source are scaled to IntBits bits; an operation whose   *)
(* mathematical result leaves that range is signed overflow, which is      *)
(* undefined in C++: its result is any value of the type.                  *)
(***************************************************************************)
EXTENDS Integers, Sequences, FiniteSets, TLC

(* ------------------------------ bounds ------------------------------- *)

\* longest input string drawn
MaxLen == 3
\* largest batch (args.size()) drawn for mask_string
MaxRows == 2
\* width of the model's int64_t
IntBits == 4

(* ------------------------------ values ------------------------------- *)

Pow2(n) == IF n = 0 THEN 1 ELSE IF n = 1 THEN 2 ELSE IF n = 2 THEN 4
           ELSE IF n = 3 THEN 8 ELSE IF n = 4 THEN 16 ELSE IF n = 5 THEN 32
           ELSE 64

IntMin == 0 - Pow2(IntBits - 1)

IntMax == Pow2(IntBits - 1) - 1

\* int64_t
Int64 == IntMin..IntMax

RECURSIVE Strings(_, _)
\* all strings over the bytes of alphabet, of length at most n
Strings(alphabet, n) ==
    IF n = 0 THEN {<<>>}
    ELSE LET shorter == Strings(alphabet, n - 1)
         IN shorter \cup {Append(s, b) : s \in shorter, b \in alphabet}

\* a non-NULL column value
Val(x) == [is_null |-> FALSE, v |-> x]

\* the NULL of a VARCHAR column
NullStr == [is_null |-> TRUE, v |-> <<>>]

\* the NULL of an integer column
NullInt == [is_null |-> TRUE, v |-> 0]

\* bytes that differ at every position
Letters == <<"a", "b", "c", "d", "e", "f">>

\* values of the text column of mask_string: a string of every length up
\* to MaxLen whose bytes are all different (the function never looks at a
\* byte of the text, only at positions), and NULL
NameValues == {Val(SubSeq(Letters, 1, n)) : n \in 0..MaxLen} \cup {NullStr}

\* values of the start and length columns, as the executor hands them to
\* the lambda: the functions are registered with INTEGER arguments, the
\* executor is instantiated at int64_t, so any int64_t can arrive
IntValues == {Val(n) : n \in Int64} \cup {NullInt}

\* values of the mask_char column: one byte, two bytes with another first
\* byte, the empty string, NULL
MaskValues == {Val(<<"*">>), Val(<<"#", "*">>), Val(<<>>), NullStr}

\* what a read of the byte after the end of a value can return: the zero
\* byte of a cleared buffer, or some other byte
MemoryBytes == {"NUL", "*"}

\* values of the column of mask_email: bytes with and without '@' and '*'
EmailValues == {Val(s) : s \in Strings({"a", "b", "@", "*"}, MaxLen)} \cup {NullStr}

\* values of the column of scramble_string
ScrambleValues == {Val(s) : s \in Strings({"a", "b"}, MaxLen)} \cup {NullStr}

\* the worker threads of the host
Threads == {"t1", "t2"}

(* --------------------------- the C++ library ------------------------- *)

Min(a, b) == IF a < b THEN a ELSE b

Max(a, b) == IF a < b THEN b ELSE a

\* a - b in int64_t: the difference, or any value when it overflows
SubInt64(a, b) == IF a - b \in Int64 THEN {a - b} ELSE Int64

\* a + b in int64_t: the sum, or any value when it overflows
AddInt64(a, b) == IF a + b \in Int64 THEN {a + b} ELSE Int64

\* std::string::substr(pos, count), for pos <= size()
Substr(s, pos, count) == SubSeq(s, pos + 1, Min(pos + count, Len(s)))

\* std::string::substr(pos), for pos <= size()
SubstrFrom(s, pos) == SubSeq(s, pos + 1, Len(s))

\* std::string(count, ch)
Fill(count, ch) == [k \in 1..count |-> ch]

\* std::string::npos
npos == 0 - 1

\* Find returning the last ch instead of the first (rfind)
FindLast(s, ch) ==
    IF \E k \in 1..Len(s) : s[k] = ch
    THEN (CHOOSE k \in 1..Len(s) : s[k] = ch /\ \A m \in (k + 1)..Len(s) : s[m] # ch) - 1
    ELSE npos

\* std::string::find(ch): the 0-based index of the first ch, or npos
Find(s, ch) ==
    IF \E k \in 1..Len(s) : s[k] = ch
    THEN (CHOOSE k \in 1..Len(s) : s[k] = ch /\ \A m \in 1..(k - 1) : s[m] # ch) - 1
    ELSE npos

\* Swap as a plain assignment s[i] = s[j]
SwapAssign(s, i, j) == [s EXCEPT ![i + 1] = s[j + 1]]

\* std::swap(s[i], s[j]), 0-based
Swap(s, i, j) == [s EXCEPT ![i + 1] = s[j + 1], ![j + 1] = s[i + 1]]

(* ------------------------------ state -------------------------------- *)

VARIABLES
    registry,      \* the host's registry: the names of the registered functions
    load_state,    \* "unloaded", "loaded" (Load returned) or "failed" (Load threw)
    args,          \* the DataChunk of the running mask_string call, or NoChunk
    ms_row,        \* the row of that chunk evaluated last, or NoRow
    em_row,        \* the row of mask_email evaluated last, or NoRow
    sc_pc,         \* per thread: "idle", "loop" (in the shuffle loop) or "done"
    sc_input,      \* per thread: the input of the running scramble_string row
    scrambled,     \* per thread: the local string being shuffled
    sc_i,          \* per thread: the loop variable i
    sc_result,     \* per thread: the value returned for the row
    gen            \* per generator instance: who seeded and used it

loadVars == <<registry, load_state>>

msVars == <<args, ms_row>>

emVars == <<em_row>>

scVars == <<sc_pc, sc_input, scrambled, sc_i, sc_result, gen>>

vars == <<registry, load_state, args, ms_row, em_row,
          sc_pc, sc_input, scrambled, sc_i, sc_result, gen>>

NoChunk == [size |-> 0, done |-> 0, mask_vector |-> <<>>]

NoRow == [applied |-> FALSE, present |-> FALSE]

(* --------------------------- registration ---------------------------- *)

\* the order in which LoadInternal registers the functions
RegistrationOrder == <<"mask_string", "mask_email", "scramble_string">>

\* the functions registered when the host rejects registration number
\* rejected (0: the host rejects none): those before it, in order
Registered(rejected) ==
    {RegistrationOrder[k] : k \in 1..(IF rejected = 0 THEN 3 ELSE rejected - 1)}

\* MaskExtension::Load -> LoadInternal: three RegisterFunction calls in a
\* row; a rejection is an exception that leaves LoadInternal at once, and
\* nothing undoes the registrations made before it.
Load ==
    /\ load_state = "unloaded"
    /\ \E rejected \in 0..3 :
        /\ registry' = registry \cup Registered(rejected)
        /\ load_state' = IF rejected = 0 THEN "loaded" ELSE "failed"
    /\ UNCHANGED <<msVars, emVars, scVars>>

\* a function can be called from SQL once the load has returned and
\* the registry holds it
Callable(fn) == load_state = "loaded" /\ fn \in registry

(* ----------------------------- mask_string --------------------------- *)

\* start = std::max(int64_t(0), std::min(start - 1, input_size))
StartClamp(start_minus_1, input_size) == Max(0, Min(start_minus_1, input_size))

\* EndClamp without the std::min against input_size
EndClampNoMin(start, start_plus_length, input_size) == Max(start, start_plus_length)

\* end = std::max(start, std::min(start + length, input_size))
EndClamp(start, start_plus_length, input_size) ==
    Max(start, Min(start_plus_length, input_size))

\* GetMaskChar reading the last row of the column instead of row 0
GetMaskCharLastRow(mask_vector) ==
    LET value == mask_vector[Len(mask_vector)]
    IN IF value.is_null
       THEN {[ch |-> "NUL", past_end |-> FALSE, thrown |-> TRUE]}
       ELSE IF Len(value.v) = 0
       THEN {[ch |-> b, past_end |-> TRUE, thrown |-> FALSE] : b \in MemoryBytes}
       ELSE {[ch |-> value.v[1], past_end |-> FALSE, thrown |-> FALSE]}

\* GetMaskChar rejecting a value without a byte 0
GetMaskCharChecked(mask_vector) ==
    LET value == mask_vector[1]
    IN IF value.is_null \/ Len(value.v) = 0
       THEN {[ch |-> "NUL", past_end |-> FALSE, thrown |-> TRUE]}
       ELSE {[ch |-> value.v[1], past_end |-> FALSE, thrown |-> FALSE]}

\* mask_vector.GetValue(0).GetValueUnsafe<string_t>().GetData()[0]: byte 0 of
\* the value at row 0 of the column, whatever row is being evaluated.  No
\* length is checked: on the empty string index 0 is past the end.  On NULL
\* the host either throws from the accessor or hands out an empty value.
GetMaskChar(mask_vector) ==
    LET value == mask_vector[1]
    IN IF value.is_null
       THEN {[ch |-> "NUL", past_end |-> FALSE, thrown |-> TRUE]}
            \cup {[ch |-> b, past_end |-> TRUE, thrown |-> FALSE] : b \in MemoryBytes}
       ELSE IF Len(value.v) = 0
       THEN {[ch |-> b, past_end |-> TRUE, thrown |-> FALSE] : b \in MemoryBytes}
       ELSE {[ch |-> value.v[1], past_end |-> FALSE, thrown |-> FALSE]}

\* masked = input.substr(0, start) + string(end - start, mask_char) + input.substr(end)
Masked(input, start, end, mask_char) ==
    Substr(input, 0, start) \o Fill(end - start, mask_char) \o SubstrFrom(input, end)

\* the lambda of MaskStringScalarFun on one row: the set of its outcomes
MaskStringFun(name, start, length, mask_vector) ==
    LET input == name
        input_size == Len(input)
    IN UNION { UNION { {
           [applied |-> TRUE, start0 |-> StartClamp(s1, input_size),
            end |-> EndClamp(StartClamp(s1, input_size), e1, input_size),
            mask_char |-> mc.ch, past_end |-> mc.past_end, thrown |-> mc.thrown,
            result |-> IF mc.thrown THEN NullStr
                       ELSE Val(Masked(input, StartClamp(s1, input_size),
                                EndClamp(StartClamp(s1, input_size), e1, input_size),
                                mc.ch))]
           : mc \in GetMaskChar(mask_vector) }
         : e1 \in AddInt64(StartClamp(s1, input_size), length) }
       : s1 \in SubInt64(start, 1) }

\* what TernaryExecutor::Execute does with one row of the three vectors it
\* is given: NULL in any of them makes the result NULL without a call
TernaryRow(name, start, length, mask_vector) ==
    IF name.is_null \/ start.is_null \/ length.is_null
    THEN {[applied |-> FALSE, start0 |-> 0, end |-> 0, mask_char |-> "NUL",
           past_end |-> FALSE, thrown |-> FALSE, result |-> NullStr]}
    ELSE MaskStringFun(name.v, start.v, length.v, mask_vector)

\* the host calls MaskStringScalarFun on a chunk of args.size() rows
MaskStringCall ==
    /\ Callable("mask_string")
    /\ args.done = args.size
    /\ ~ms_row.present
    /\ \E n \in 1..MaxRows : \E column \in [1..n -> MaskValues] :
        args' = [size |-> n, done |-> 0, mask_vector |-> column]
    /\ ms_row' = NoRow
    /\ UNCHANGED <<loadVars, emVars, scVars>>

\* the executor's loop body on row args.done: it reads the row's three
\* values and, unless one is NULL, calls the lambda on them
MaskStringRow ==
    /\ args.done < args.size
    /\ ~ms_row.present
    /\ \E name \in NameValues, start \in IntValues, length \in IntValues :
        \E out \in TernaryRow(name, start, length, args.mask_vector) :
            ms_row' = [present |-> TRUE, index |-> args.done, name |-> name,
                       start |-> start, length |-> length] @@ out
    /\ UNCHANGED <<args, loadVars, emVars, scVars>>

\* the loop goes on to the next row, the lambda's locals are gone; an
\* exception thrown by the lambda ends the call instead
MaskStringNext ==
    /\ ms_row.present
    /\ args' = IF ms_row.thrown THEN NoChunk
               ELSE [args EXCEPT !.done = args.done + 1]
    /\ ms_row' = NoRow
    /\ UNCHANGED <<loadVars, emVars, scVars>>

(* ----------------------------- mask_email ---------------------------- *)

\* MaskEmailFun writing at_pos asterisks instead of at_pos - 1
MaskEmailFunOneMore(email) ==
    LET input == email
        at_pos == Find(input, "@")
    IN IF at_pos = npos \/ at_pos = 0
       THEN input
       ELSE Substr(input, 0, 1) \o Fill(at_pos, "*") \o SubstrFrom(input, at_pos)

\* the lambda of MaskEmailScalarFun
MaskEmailFun(email) ==
    LET input == email
        at_pos == Find(input, "@")
    IN IF at_pos = npos \/ at_pos = 0
       THEN input
       ELSE Substr(input, 0, 1) \o Fill(at_pos - 1, "*") \o SubstrFrom(input, at_pos)

\* what UnaryExecutor::Execute does with one row: NULL stays NULL without
\* a call
MaskEmailUnary(email) ==
    IF email.is_null THEN NullStr ELSE Val(MaskEmailFun(email.v))

\* one row of a mask_email call
MaskEmailRow ==
    /\ Callable("mask_email")
    /\ ~em_row.present
    /\ \E email \in EmailValues :
        em_row' = [present |-> TRUE, applied |-> ~email.is_null, depth |-> 1,
                   email |-> email, result |-> MaskEmailUnary(email),
                   outer |-> NullStr]
    /\ UNCHANGED <<loadVars, msVars, scVars>>

\* mask_email(mask_email(x)): the host evaluates the outer call on the
\* result vector of the inner one
MaskEmailNested ==
    /\ em_row.present
    /\ em_row.depth = 1
    /\ em_row' = [em_row EXCEPT !.depth = 2, !.outer = MaskEmailUnary(em_row.result)]
    /\ UNCHANGED <<loadVars, msVars, scVars>>

\* the executor goes on to the next row
MaskEmailNext ==
    /\ em_row.present
    /\ em_row' = NoRow
    /\ UNCHANGED <<loadVars, msVars, scVars>>

(* --------------------------- scramble_string ------------------------- *)

\* GenOf for a plain static: one instance for every thread
GenOfShared(t) == "t1"

\* static thread_local: the generator instance thread t uses is its own
GenOf(t) == t

\* static thread_local std::mt19937 gen(rd()): the instance is seeded when
\* control first passes the declaration, and every pass counts as a use
PassDeclaration(g, t) ==
    [seeds |-> IF g.seeds = 0 THEN 1 ELSE g.seeds, users |-> g.users \cup {t}]

\* dis(gen): the draw reads and advances the instance
Draw(g, t) == [g EXCEPT !.users = g.users \cup {t}]

\* a row of a scramble_string call starts on thread t: NULL stays NULL, the
\* empty string is returned as it is, anything else is copied and the loop
\* starts at i = length() - 1
ScrambleCall(t) ==
    /\ Callable("scramble_string")
    /\ sc_pc[t] = "idle"
    /\ \E input_str \in ScrambleValues :
        /\ sc_input' = [sc_input EXCEPT ![t] = input_str]
        /\ IF input_str.is_null \/ Len(input_str.v) = 0
           THEN /\ sc_pc' = [sc_pc EXCEPT ![t] = "done"]
                /\ sc_result' = [sc_result EXCEPT ![t] = input_str]
                /\ UNCHANGED <<scrambled, sc_i, gen>>
           ELSE /\ sc_pc' = [sc_pc EXCEPT ![t] = "loop"]
                /\ scrambled' = [scrambled EXCEPT ![t] = input_str.v]
                /\ sc_i' = [sc_i EXCEPT ![t] = Len(input_str.v) - 1]
                /\ gen' = [gen EXCEPT ![GenOf(t)] = PassDeclaration(gen[GenOf(t)], t)]
                /\ UNCHANGED sc_result
    /\ UNCHANGED <<loadVars, msVars, emVars>>

\* one iteration of the Fisher-Yates loop on thread t
ScrambleStep(t) ==
    /\ sc_pc[t] = "loop"
    /\ sc_i[t] > 0
    /\ \E j \in 0..sc_i[t] :
        scrambled' = [scrambled EXCEPT ![t] = Swap(scrambled[t], sc_i[t], j)]
    /\ gen' = [gen EXCEPT ![GenOf(t)] = Draw(gen[GenOf(t)], t)]
    /\ sc_i' = [sc_i EXCEPT ![t] = sc_i[t] - 1]
    /\ UNCHANGED <<sc_pc, sc_input, sc_result, loadVars, msVars, emVars>>

\* the loop ends at i = 0 and the lambda returns the shuffled copy
ScrambleReturn(t) ==
    /\ sc_pc[t] = "loop"
    /\ ~(sc_i[t] > 0)
    /\ sc_pc' = [sc_pc EXCEPT ![t] = "done"]
    /\ sc_result' = [sc_result EXCEPT ![t] = Val(scrambled[t])]
    /\ UNCHANGED <<sc_input, scrambled, sc_i, gen, loadVars, msVars, emVars>>

\* the executor goes on to the next row; the lambda's locals are gone
ScrambleNext(t) ==
    /\ sc_pc[t] = "done"
    /\ sc_pc' = [sc_pc EXCEPT ![t] = "idle"]
    /\ sc_input' = [sc_input EXCEPT ![t] = NullStr]
    /\ scrambled' = [scrambled EXCEPT ![t] = <<>>]
    /\ sc_i' = [sc_i EXCEPT ![t] = 0]
    /\ sc_result' = [sc_result EXCEPT ![t] = NullStr]
    /\ UNCHANGED <<gen, loadVars, msVars, emVars>>

(* ------------------------------ the system --------------------------- *)

Init ==
    /\ registry = {}
    /\ load_state = "unloaded"
    /\ args = NoChunk
    /\ ms_row = NoRow
    /\ em_row = NoRow
    /\ sc_pc = [t \in Threads |-> "idle"]
    /\ sc_input = [t \in Threads |-> NullStr]
    /\ scrambled = [t \in Threads |-> <<>>]
    /\ sc_i = [t \in Threads |-> 0]
    /\ sc_result = [t \in Threads |-> NullStr]
    /\ gen = [t \in Threads |-> [seeds |-> 0, users |-> {}]]

\* load, then mask_string calls
Next == Load \/ MaskStringCall \/ MaskStringRow \/ MaskStringNext

Spec == Init /\ [][Next]_vars

\* load, then mask_email calls
NextEmail == Load \/ MaskEmailRow \/ MaskEmailNested \/ MaskEmailNext

SpecEmail == Init /\ [][NextEmail]_vars

\* load, then scramble_string calls on the worker threads
NextScramble ==
    \/ Load
    \/ \E t \in Threads : ScrambleCall(t)
    \/ \E t \in Threads : ScrambleStep(t)
    \/ \E t \in Threads : ScrambleReturn(t)
    \/ \E t \in Threads : ScrambleNext(t)

SpecScramble == Init /\ [][NextScramble]_vars

(* ------------------------------- claims ------------------------------ *)

\* clamp(x, lo, hi) over the integers
Clamp(x, lo, hi) == IF x < lo THEN lo ELSE IF x > hi THEN hi ELSE x

\* out is text with exactly the positions lo+1..hi (1-based) set to ch
Overwritten(out, text, lo, hi, ch) ==
    /\ Len(out) = Len(text)
    /\ \A k \in 1..Len(text) : out[k] = IF lo < k /\ k <= hi THEN ch ELSE text[k]

\* a row of mask_string on which the lambda ran to its end
MsApplied == ms_row.present /\ ms_row.applied /\ ~ms_row.thrown

\* the value at row 0 of the mask_char column
MaskRow0 == args.mask_vector[1]

\* C1: for every text S, start s, length n and fill byte c, mask_string
\* returns S with exactly the bytes [s0, e) set to c, where
\* s0 = clamp(s - 1, 0, L) and e = clamp(s0 + n, s0, L) over the integers.
C1_MaskStringFormula ==
    MsApplied =>
        LET L == Len(ms_row.name.v)
            s0 == Clamp(ms_row.start.v - 1, 0, L)
            e == Clamp(s0 + ms_row.length.v, s0, L)
        IN Overwritten(ms_row.result.v, ms_row.name.v, s0, e, ms_row.mask_char)

\* The formula of C1 on the rows where neither start - 1 nor start + length
\* overflows: there the code computes it.
MaskStringFormulaInRange ==
    (/\ MsApplied
     /\ ms_row.start.v - 1 \in Int64
     /\ Clamp(ms_row.start.v - 1, 0, Len(ms_row.name.v)) + ms_row.length.v \in Int64)
    => LET L == Len(ms_row.name.v)
           s0 == Clamp(ms_row.start.v - 1, 0, L)
           e == Clamp(s0 + ms_row.length.v, s0, L)
       IN Overwritten(ms_row.result.v, ms_row.name.v, s0, e, ms_row.mask_char)

C3_MaskEmailFormula ==
    (em_row.present /\ em_row.applied) =>
        LET S == em_row.email.v
            out == em_row.result.v
        IN /\ ~em_row.result.is_null
           /\ IF (\A k \in 1..Len(S) : S[k] # "@") \/ S[1] = "@"
              THEN out = S
              ELSE \E q \in 2..Len(S) :
                      /\ S[q] = "@"
                      /\ \A m \in 1..(q - 1) : S[m] # "@"
                      /\ Len(out) = Len(S)
                      /\ out[1] = S[1]
                      /\ \A m \in 2..(q - 1) : out[m] = "*"
                      /\ \A m \in q..Len(S) : out[m] = S[m]

\* a text whose local part is masked up to the '@'
C3_Witness ==
    /\ em_row.present
    /\ em_row.depth = 1
    /\ em_row.email.v = <<"a", "b", "@">>
    /\ em_row.result.v = <<"a", "*", "@">>

\* C4: on a text whose first '@' is not its first byte, mask_email applied
\* to the result of mask_email returns that result.
C4_MaskEmailIdempotent ==
    (/\ em_row.present
     /\ em_row.depth = 2
     /\ em_row.applied
     /\ \E k \in 2..Len(em_row.email.v) :
           em_row.email.v[k] = "@" /\ \A m \in 1..(k - 1) : em_row.email.v[m] # "@")
    => em_row.outer = em_row.result

\* the nested call on a text that the inner call changed
C4_Witness ==
    /\ em_row.present
    /\ em_row.depth = 2
    /\ em_row.email.v = <<"b", "a", "@">>
    /\ em_row.result.v = <<"b", "*", "@">>
    /\ em_row.outer.v = <<"b", "*", "@">>

\* how often byte b occurs in s
Count(s, b) == Cardinality({k \in 1..Len(s) : s[k] = b})

\* x and y have the same length and the same multiset of bytes
SameBytes(x, y) ==
    /\ Len(x) = Len(y)
    /\ \A b \in {x[k] : k \in 1..Len(x)} \cup {y[k] : k \in 1..Len(y)} :
          Count(x, b) = Count(y, b)

\* the shuffled copy of every thread is a permutation of its input while
\* the loop runs and when it has returned, with i inside 0..L-1
ScrambleInv ==
    \A t \in Threads :
        /\ sc_pc[t] = "loop" =>
              /\ SameBytes(scrambled[t], sc_input[t].v)
              /\ sc_i[t] \in 0..(Len(sc_input[t].v) - 1)
        /\ sc_pc[t] = "done" =>
              /\ sc_result[t].is_null = sc_input[t].is_null
              /\ SameBytes(sc_result[t].v, sc_input[t].v)

\* a step that leaves a thread in the loop and changes its copy or its i
\* is one iteration: i was at least 1 and goes down by one
ScrambleLoopStep ==
    \A t \in Threads :
        (/\ sc_pc[t] = "loop"
         /\ sc_pc'[t] = "loop"
         /\ <<scrambled[t], sc_i[t]>> # <<scrambled'[t], sc_i'[t]>>)
        => sc_i[t] >= 1 /\ sc_i'[t] = sc_i[t] - 1

AllFunctions == {"mask_string", "mask_email", "scramble_string"}

\* C6: when the load has ended, with success or with a rejected
\* registration, the registry holds all three functions or none of them.
C6_AllOrNothing ==
    load_state # "unloaded" => (registry = {} \/ registry = AllFunctions)

\* C7: the generator of scramble_string is per thread: an instance is
\* seeded once, on its thread's first use, and is read and written by that
\* thread alone; whatever the other thread does meanwhile, a thread's
\* result is a permutation of its own input.
C7_GeneratorPerThread ==
    \A t \in Threads :
        /\ gen[t].users \subseteq {t}
        /\ gen[t].seeds <= 1
        /\ gen[t].users # {} => gen[t].seeds = 1
        /\ (sc_pc[t] = "loop" /\ sc_i[t] < Len(sc_input[t].v) - 1) => gen[t].users = {t}
        /\ (sc_pc[t] = "done" /\ ~sc_input[t].is_null) =>
              SameBytes(sc_result[t].v, sc_input[t].v)

\* t1 has returned a shuffled row while t2 is in the middle of its loop,
\* each having drawn from its own generator
C7_Witness ==
    /\ sc_pc["t1"] = "done"
    /\ sc_input["t1"].v = <<"a", "a", "b">>
    /\ sc_result["t1"].v = <<"b", "a", "a">>
    /\ sc_pc["t2"] = "loop"
    /\ Len(sc_input["t2"].v) = 3
    /\ sc_i["t2"] = 1
    /\ gen["t1"] = [seeds |-> 1, users |-> {"t1"}]
    /\ gen["t2"] = [seeds |-> 1, users |-> {"t2"}]

\* C8: a row with a NULL in any argument (for mask_string: the text, the
\* start, the length or the fill character) has a NULL result, and the
\* transformation is not applied to it.
C8_NullPropagation ==
    (/\ ms_row.present
     /\ \/ ms_row.name.is_null
        \/ ms_row.start.is_null
        \/ ms_row.length.is_null
        \/ args.mask_vector[ms_row.index + 1].is_null)
    => ~ms_row.applied /\ ~ms_row.thrown /\ ms_row.result.is_null

\* C9: every row of a mask_string batch is masked with the first byte of
\* the value at row 0 of the fourth column, whatever the row's own value
\* in that column is.
C9_FillFromRow0 ==
    (MsApplied /\ ~MaskRow0.is_null /\ Len(MaskRow0.v) > 0)
    => /\ ms_row.mask_char = MaskRow0.v[1]
       /\ Overwritten(ms_row.result.v, ms_row.name.v, ms_row.start0, ms_row.end,
                      MaskRow0.v[1])

\* the second row of a batch, whose own fill value starts with '#', is
\* masked with the '*' of the first row
C9_Witness ==
    /\ MsApplied
    /\ ms_row.index = 1
    /\ args.mask_vector = <<Val(<<"*">>), Val(<<"#", "*">>)>>
    /\ ms_row.name.v = <<"a", "b", "c">>
    /\ ms_row.result.v = <<"a", "*", "c">>

\* C10: with the empty string as the fill value at row 0 the lambda still
\* reads byte 0, which is past the end of the value, and masks with the
\* byte it finds: no error is raised and the mask is not skipped.
C10_EmptyFillReadsPastEnd ==
    (ms_row.present /\ ms_row.applied /\ ~MaskRow0.is_null /\ Len(MaskRow0.v) = 0)
    => /\ ms_row.past_end
       /\ ~ms_row.thrown
       /\ Overwritten(ms_row.result.v, ms_row.name.v, ms_row.start0, ms_row.end,
                      ms_row.mask_char)

\* an empty fill value, and a text masked with a byte that is not '*'
C10_Witness ==
    /\ MsApplied
    /\ MaskRow0 = Val(<<>>)
    /\ ms_row.past_end
    /\ ms_row.name.v = <<"a", "b", "c">>
    /\ ms_row.result.v = <<"a", "NUL", "NUL">>

====
